---- MODULE Spec2Model ----
(***************************************************************************)
(* A model of the lagoon thread pool (src/src/lib.rs, scope.rs, recv.rs).  *)
(*                                                                         *)
(* Threads are the client thread (thread id 0) and the pool's workers      *)
(* (thread ids 1..MaxWorkers).  Every atomic operation of the code         *)
(* (channel send / recv, fetch_add, fetch_sub, load, park, unpark, the     *)
(* one-shot channel's send / try_recv / recv) is one step of the thread    *)
(* that performs it.                                                       *)
(***************************************************************************)
EXTENDS Integers, Sequences, FiniteSets, TLC

\* ---------------------------------------------------------------- bounds
MaxWorkers == 2      \* largest thread count a builder asks for
MaxTasks   == 2      \* largest number of jobs a client submits
MaxOps     == 3      \* largest number of calls made on one JobHandle
MaxCalls   == 2      \* calls of global()/global_with_builder per caller
NumCallers == 2      \* threads racing for the global pool
MaxCpus    == 2      \* largest value of available_concurrency()

\* ------------------------------------------------------ program constants
DEFAULT_THREAD_COUNT == 8

Workers == 1..MaxWorkers
Tasks   == 1..MaxTasks       \* the jobs the client thread submits
Inner(i) == MaxTasks + i     \* the job spawned by the scope that job i opens
OtherTask == 2 * MaxTasks + 1    \* the job spawned by the second client's scope
PlainTask == OtherTask + 1        \* a job submitted with ThreadPool::run beside the scopes
AllTasks == 1..PlainTask
Other   == MaxWorkers + 1    \* a second client thread
Threads == 0..Other          \* 0 is the client thread, 1..MaxWorkers the workers
Callers == 1..NumCallers

VARIABLES
  \* --- the pool (lib.rs: ThreadPool, the worker loop)
  queue,      \* the unbounded channel of Job, FIFO
  txAlive,    \* the pool's Sender<Job> has not been dropped
  nthreads,   \* handles.len(); 0 while no pool exists
  wpc,        \* per worker: position in the worker loop
  wjob,       \* per worker: the job it received
  wres,       \* per worker: outcome of the job's function: "none", "ok", "panic",
              \* "bomb" (a panic whose payload panics when it is dropped)
  wval,       \* per worker: value returned by the job's function
  \* --- jobs and what their functions touch
  ntasks,     \* number of jobs the client submits
  kind,       \* per task: what its function does
  orig,       \* per task: the value its closure captured (the element's original
              \* value; the value a result-bearing function returns)
  data,       \* per task: the element, written by the "square" function
  counter,    \* shared atomic counter, incremented by the "incr" function
  execs,      \* per task: number of times its function was invoked
  decs,       \* per task: number of fetch_sub its wrapper performed
  unparks,    \* per task: number of unpark its wrapper performed
  \* --- threads and the scope (scope.rs)
  token,      \* per thread: the park token (std::thread::park / unpark)
  count,      \* per scope (named by the thread that opened it): its AtomicUsize
  owner,      \* per scope: its Thread (thread::current() at creation), -1 if none
  earlyWake,  \* history: park returned while the count was above 0
  spc,        \* per thread other than the client: position in the scope it opened
  lost,       \* history, per scope: increments whose wrapper was dropped unsent
  \* --- the client thread
  cpc,        \* position in the client program
  next,       \* index of the next job to submit
  joined,     \* join_all: number of handles already joined
  target,     \* finish: the resolved thread_count while threads are spawned
  bres,       \* the value the scope body returned, 0 before
  bpanic,     \* the scope body panicked
  sret,       \* the value scoped returned, 0 before
  ret,        \* what the client's call returned
  \* --- the JobHandle (recv.rs) and its one-shot channel
  chan,       \* "NONE", "EMPTY", "MESSAGE", "DISCONNECTED"
  msg,        \* the message in the one-shot channel
  cache,      \* maybe_recv: 0 is None
  halive,     \* the handle has not been consumed
  ops,        \* calls made on the handle so far
  okVals,     \* the successful values the handle's calls returned, in order
  lastIs,     \* result of the last is_completed: "none", "true", "false"
  everTrue,   \* some is_completed returned true
  jres,       \* result of the last try_join / join: "none", "TryOk", "TryPending",
              \* "JoinOk", "JoinTimeout"
  joinAt,     \* history: where the job was when the client called join
  \* --- the global pool (lib.rs: GLOBAL, global_with_builder)
  avail,      \* available_concurrency(): 0 is None
  status,     \* spin::Once status
  gdata,      \* thread_count() of the pool stored in GLOBAL, 0 if none
  built,      \* thread counts of the pools ever constructed, in order
  gpc,        \* per caller: position in global_with_builder
  gcfg,       \* per caller: the builder of the current call
  gret,       \* per caller: thread_count() of the instance the last call returned,
              \* -1 if the call panicked, 0 before the first call ended
  gwin,       \* the builder whose finish() ran inside call_once last
  gcalls      \* per caller: calls begun

poolVars   == <<queue, txAlive, nthreads, wpc, wjob, wres, wval>>
taskVars   == <<ntasks, kind, orig, data, counter, execs, decs, unparks>>
scopeVars  == <<token, count, owner, earlyWake, spc, lost>>
clientVars == <<cpc, next, joined, target, bres, bpanic, sret, ret>>
recvVars   == <<chan, msg, cache, halive, ops, okVals, lastIs, everTrue, jres, joinAt>>
globalVars == <<avail, status, gdata, built, gpc, gcfg, gret, gwin, gcalls>>
vars == <<poolVars, taskVars, scopeVars, clientVars, recvVars, globalVars>>

\* ------------------------------------------------------------------ jobs
NoJob == [id |-> 0, fn |-> "none", scope |-> FALSE, parent |-> -1, tx |-> FALSE]

\* ThreadPool::run boxes the closure into a Job.
Job(i, f) == [id |-> i, fn |-> f, scope |-> FALSE, parent |-> -1, tx |-> FALSE]

\* Scope::run wraps the closure with the guard that decrements and unparks
\* parent, its clone of the Arc of the scope it was called on.
ScopedJobShared(i, f, p) == [id |-> i, fn |-> f, scope |-> TRUE, parent |-> 0, tx |-> FALSE]
ScopedJob(i, f, p) == [id |-> i, fn |-> f, scope |-> TRUE, parent |-> p, tx |-> FALSE]

\* Scope::run_recv hands Scope::run a closure that sends f() on the one-shot.
ScopedRecvJob(i, f, p) == [id |-> i, fn |-> f, scope |-> TRUE, parent |-> p, tx |-> TRUE]

\* ThreadPool::run_recv wraps the closure so that it sends f() on the one-shot.
RecvJob(i, f) == [id |-> i, fn |-> f, scope |-> FALSE, parent |-> -1, tx |-> TRUE]

\* *x *= *x; the elements squared here (the doc test's are 0..99) stay far
\* below the u32 range, so the product is exact.
Square(x) == x * x

\* ------------------------------------------------- ThreadPoolBuilder::finish
\* The thread count finish resolves: configured, else detected, else default.
\* 0 stands for None in both arguments.
ResolveThreadCount(cfg, av) ==
  IF cfg.some THEN cfg.n ELSE IF av # 0 THEN av ELSE DEFAULT_THREAD_COUNT

\* finish: Err(NoThreads) for a resolved count of 0, Err(Io) when a spawn
\* fails, else a pool with that many handles.
Finish(cfg, av, spawnOk) ==
  LET n == ResolveThreadCount(cfg, av) IN
  IF n = 0 THEN [ok |-> FALSE, err |-> "NoThreads", threads |-> 0]
  ELSE IF ~spawnOk THEN [ok |-> FALSE, err |-> "Io", threads |-> 0]
  ELSE [ok |-> TRUE, err |-> "none", threads |-> n]

Spawned(n) == [w \in Workers |-> IF w <= n THEN "recv" ELSE "unspawned"]

Vals == {2, 3}       \* values a closure captures

\* ------------------------------------------------------- the worker loop
\* lib.rs:249-255
\*   while let Ok(job) = rx.recv() { let _ = catch_unwind(|| (job.f)()); }

\* rx.recv() returns Err only when the channel is empty and has no sender.
RecvDisconnected(q, alive) == q = <<>> /\ ~alive

\* tx.send(job) returns Err when no Receiver is left: finish dropped its own
\* rx (line 233) and every worker thread has ended, dropping its clone.
SendFails == \A w \in 1..nthreads : wpc[w] \in {"exited", "panicked"}

\* Worker w holds the last Receiver: every other worker thread has ended.
LastReceiver(w) ==
  \A v \in 1..nthreads : v # w => wpc[v] \in {"exited", "panicked"}

\* A job that is dropped without having run drops the one-shot sender its
\* closure captured.
DropsSender(q) == \E k \in 1..Len(q) : q[k].tx

\* A function panics with an ordinary payload (panic!(..)) or with one whose
\* destructor panics (panic_any(Bomb)).
Panics(f) == f \in {"panic", "bomb"}

\* catch_unwind and `let _ =`, lines 252-254: the panic of the job is caught,
\* and the Result is dropped at once, outside catch_unwind.  Dropping
\* Err(payload) runs the payload's destructor; one that panics is user code
\* the thread is still inside of when catch_unwind has returned.  Otherwise
\* the loop goes on.
CatchUnwind(res) == IF res = "bomb" THEN "payload_drop" ELSE "recv"

\* scopeguard::guard: the closure runs when the guard is dropped, on normal
\* exit and on unwinding alike.
GuardRuns(res) == res \in {"ok", "panic", "bomb"}

\* thread::unpark: makes the thread's token available.
Unpark(tok, t) == [tok EXCEPT ![t] = TRUE]

\* The one-shot channel after the wrapper `let _ = tx.send(f())` is done with
\* tx: f returned and its value was sent, or f panicked and tx was dropped
\* unsent while unwinding.
SenderLeaked(res) == IF res = "ok" THEN "MESSAGE" ELSE "EMPTY"
SenderDone(res) == IF res = "ok" THEN "MESSAGE" ELSE "DISCONNECTED"

\* The value the wrapper sends: the value f returned.
SentStale(v) == 0
SentValue(v) == v

\* Position of a worker after its job's function returned or panicked.
AfterCallGuardFirst(job, res) ==
  IF job.scope /\ GuardRuns(res) THEN "dec"
  ELSE IF job.tx THEN "send"
  ELSE CatchUnwind(res)

AfterCall(job, res) ==
  IF job.tx THEN "send"
  ELSE IF job.scope /\ GuardRuns(res) THEN "dec"
  ELSE CatchUnwind(res)

AfterSend(job, res) ==
  IF job.scope /\ GuardRuns(res) THEN "dec" ELSE CatchUnwind(res)

\* rx.recv() returns Ok(job)
WorkerRecv(w) ==
  /\ wpc[w] = "recv"
  /\ queue # <<>>
  /\ wjob' = [wjob EXCEPT ![w] = Head(queue)]
  /\ queue' = Tail(queue)
  /\ wpc' = [wpc EXCEPT ![w] = "call"]
  /\ wres' = [wres EXCEPT ![w] = "none"]
  /\ wval' = [wval EXCEPT ![w] = 0]
  /\ UNCHANGED <<txAlive, nthreads, taskVars, scopeVars, clientVars, recvVars, globalVars>>

\* rx.recv() returns Err: the loop ends and the thread exits.
WorkerExit(w) ==
  /\ wpc[w] = "recv"
  /\ RecvDisconnected(queue, txAlive)
  /\ wpc' = [wpc EXCEPT ![w] = "exited"]
  /\ UNCHANGED <<queue, txAlive, nthreads, wjob, wres, wval,
                 taskVars, scopeVars, clientVars, recvVars, globalVars>>

\* The job's function runs to its end: it returns or it panics.  A function
\* that opens a scope ("nest") returns after scoped has returned.
WorkerCall(w) ==
  LET job == wjob[w]
      i   == job.id
      res == IF Panics(job.fn) THEN job.fn ELSE "ok"
  IN
  /\ wpc[w] = "call"
  /\ job.fn = "nest" => spc[w] = "closed"
  /\ spc' = [spc EXCEPT ![w] = "idle"]
  /\ execs' = [execs EXCEPT ![i] = @ + 1]
  /\ data' = IF job.fn = "square" THEN [data EXCEPT ![i] = Square(@)] ELSE data
  /\ counter' = IF job.fn = "incr" THEN counter + 1 ELSE counter
  /\ wval' = [wval EXCEPT ![w] = IF job.fn = "value" THEN orig[i] ELSE 0]
  /\ wres' = [wres EXCEPT ![w] = res]
  /\ wpc' = [wpc EXCEPT ![w] = AfterCall(job, res)]
  /\ UNCHANGED <<queue, txAlive, nthreads, wjob, ntasks, kind, orig, decs, unparks,
                 token, count, owner, earlyWake, lost, clientVars, recvVars, globalVars>>

\* The run_recv wrapper: tx.send(f()), or tx dropped by the unwinding.
WorkerSend(w) ==
  /\ wpc[w] = "send"
  /\ chan' = IF chan = "EMPTY" THEN SenderDone(wres[w]) ELSE chan
  /\ msg' = IF chan = "EMPTY" /\ wres[w] = "ok" THEN SentValue(wval[w]) ELSE msg
  /\ wpc' = [wpc EXCEPT ![w] = AfterSend(wjob[w], wres[w])]
  /\ UNCHANGED <<queue, txAlive, nthreads, wjob, wres, wval, taskVars, scopeVars,
                 clientVars, cache, halive, ops, okVals, lastIs, everTrue, jres, joinAt,
                 globalVars>>

\* The destructor of the panic payload panics: the panic leaves the while loop
\* and the thread's closure, the thread ends and drops rx.  With the last
\* Receiver the channel drops the jobs still queued, unrun: their closures
\* are dropped, and with them the one-shot sender of a run_recv job (a scoped
\* job's wrapper never made its guard, so its count is not decremented).
WorkerPayloadDrop(w) ==
  /\ wpc[w] = "payload_drop"
  /\ wpc' = [wpc EXCEPT ![w] = "panicked"]
  /\ queue' = IF LastReceiver(w) THEN <<>> ELSE queue
  /\ chan' = IF LastReceiver(w) /\ DropsSender(queue) /\ chan = "EMPTY"
             THEN "DISCONNECTED" ELSE chan
  /\ UNCHANGED <<txAlive, nthreads, wjob, wres, wval, taskVars, scopeVars, clientVars,
                 msg, cache, halive, ops, okVals, lastIs, everTrue, jres, joinAt,
                 globalVars>>

\* The scope guard, first half: parent.1.fetch_sub(1, Release)
WorkerGuardDec(w) ==
  /\ wpc[w] = "dec"
  /\ count' = [count EXCEPT ![wjob[w].parent] = @ - 1]
  /\ decs' = [decs EXCEPT ![wjob[w].id] = @ + 1]
  /\ wpc' = [wpc EXCEPT ![w] = "unpark"]
  /\ UNCHANGED <<queue, txAlive, nthreads, wjob, wres, wval,
                 ntasks, kind, orig, data, counter, execs, unparks,
                 token, owner, earlyWake, spc, lost, clientVars, recvVars, globalVars>>

\* The scope guard, second half: parent.0.unpark(); then the wrapper is over
\* and catch_unwind returns.
WorkerGuardUnpark(w) ==
  /\ wpc[w] = "unpark"
  /\ token' = Unpark(token, owner[wjob[w].parent])
  /\ unparks' = [unparks EXCEPT ![wjob[w].id] = @ + 1]
  /\ wpc' = [wpc EXCEPT ![w] = CatchUnwind(wres[w])]
  /\ UNCHANGED <<queue, txAlive, nthreads, wjob, wres, wval,
                 ntasks, kind, orig, data, counter, execs, decs,
                 count, owner, earlyWake, spc, lost, clientVars, recvVars, globalVars>>

\* ------------------------------------------------------ idle components
NoPool ==
  /\ queue = <<>>
  /\ txAlive = FALSE
  /\ nthreads = 0
  /\ wpc = Spawned(0)
  /\ wjob = [w \in Workers |-> NoJob]
  /\ wres = [w \in Workers |-> "none"]
  /\ wval = [w \in Workers |-> 0]

\* A pool of n threads right after finish() returned it.
FreshPool(n) ==
  /\ queue = <<>>
  /\ txAlive = TRUE
  /\ nthreads = n
  /\ wpc = Spawned(n)
  /\ wjob = [w \in Workers |-> NoJob]
  /\ wres = [w \in Workers |-> "none"]
  /\ wval = [w \in Workers |-> 0]

\* The doc test's vector, (0..100).collect(), shifted by two so that a square
\* differs from its root: element i holds i + 1.
Elem(i) == i + 1

\* The client's jobs: ntasks of them, their functions drawn from kinds, job i
\* capturing element i.
TasksIn(kinds) ==
  /\ ntasks \in 0..MaxTasks
  /\ kind \in [Tasks -> kinds \cup {"none"}]
  /\ \A i \in Tasks : kind[i] = "none" <=> i > ntasks
  /\ orig = [i \in Tasks |-> IF i <= ntasks THEN Elem(i) ELSE 0]
  /\ data = orig
  /\ counter = 0
  /\ execs = [i \in AllTasks |-> 0]
  /\ decs = [i \in AllTasks |-> 0]
  /\ unparks = [i \in AllTasks |-> 0]

NoScope ==
  /\ token = [t \in Threads |-> FALSE]
  /\ count = [t \in Threads |-> 0]
  /\ owner = [t \in Threads |-> -1]
  /\ earlyWake = FALSE
  /\ spc = [t \in Threads |-> "idle"]
  /\ lost = [t \in Threads |-> 0]

NoHandle ==
  /\ chan = "NONE"
  /\ msg = 0
  /\ cache = 0
  /\ halive = FALSE
  /\ ops = 0
  /\ okVals = <<>>
  /\ lastIs = "none"
  /\ everTrue = FALSE
  /\ jres = "none"
  /\ joinAt = "none"

NoGlobal ==
  /\ avail = 0
  /\ status = "Incomplete"
  /\ gdata = 0
  /\ built = <<>>
  /\ gpc = [c \in Callers |-> "idle"]
  /\ gcfg = [c \in Callers |-> [some |-> FALSE, n |-> 0]]
  /\ gret = [c \in Callers |-> 0]
  /\ gwin = [some |-> FALSE, n |-> 0]
  /\ gcalls = [c \in Callers |-> 0]

\* ------------------------------------------- the pool client (SpecPool)
\* benches/threadpool.rs lagoon_threadpool: build a pool, run the jobs,
\* join_all.

\* ThreadPool::build().with_thread_count(n).finish()
PoolBuild ==
  /\ cpc = "build"
  /\ \E n \in 0..MaxWorkers :
       LET r == Finish([some |-> TRUE, n |-> n], avail, TRUE) IN
       IF r.ok
       THEN /\ nthreads' = r.threads
            /\ wpc' = Spawned(r.threads)
            /\ txAlive' = TRUE
            /\ cpc' = "submit"
            /\ ret' = ret
       ELSE /\ cpc' = "failed"
            /\ ret' = r.err
            /\ UNCHANGED <<nthreads, wpc, txAlive>>
  /\ UNCHANGED <<queue, wjob, wres, wval, taskVars, scopeVars, next, joined, target, bres, bpanic, sret,
                 recvVars, globalVars>>

\* ThreadPool::run: self.tx.send(Job { f }).unwrap(); the unwrap panics in the
\* caller when the send fails.
PoolRun ==
  /\ cpc = "submit"
  /\ next <= ntasks
  /\ IF SendFails
     THEN /\ cpc' = "unwound"
          /\ ret' = "panic"
          /\ UNCHANGED <<queue, next>>
     ELSE /\ queue' = Append(queue, Job(next, kind[next]))
          /\ next' = next + 1
          /\ UNCHANGED <<cpc, ret>>
  /\ UNCHANGED <<txAlive, nthreads, wpc, wjob, wres, wval, taskVars, scopeVars,
                 joined, target, bres, bpanic, sret, recvVars, globalVars>>

\* join_all, lines 177-178: take the pool apart and drop the sender.
JoinAllDrop ==
  /\ cpc = "submit"
  /\ next > ntasks
  /\ txAlive' = FALSE
  /\ cpc' = "join"
  /\ joined' = 0
  /\ UNCHANGED <<queue, nthreads, wpc, wjob, wres, wval, taskVars, scopeVars,
                 next, target, bres, bpanic, sret, ret, recvVars, globalVars>>

\* join_all, lines 179-182: handle.join()? on the next handle returns once
\* that thread has ended; Err if it ended by a panic; Ok(()) after the last.
JoinAllNoWait ==
  /\ cpc = "join"
  /\ joined < nthreads
  /\ joined' = joined + 1
  /\ cpc' = IF joined + 1 = nthreads THEN "done" ELSE "join"
  /\ ret' = IF joined + 1 = nthreads THEN "Ok" ELSE ret
  /\ UNCHANGED <<poolVars, taskVars, scopeVars, next, target, bres, bpanic, sret, recvVars, globalVars>>

JoinAllJoin ==
  /\ cpc = "join"
  /\ joined < nthreads
  /\ wpc[joined + 1] \in {"exited", "panicked"}
  /\ IF wpc[joined + 1] = "panicked"
     THEN /\ ret' = "Err"
          /\ cpc' = "done"
          /\ joined' = joined
     ELSE /\ joined' = joined + 1
          /\ cpc' = IF joined + 1 = nthreads THEN "done" ELSE "join"
          /\ ret' = IF joined + 1 = nthreads THEN "Ok" ELSE ret
  /\ UNCHANGED <<poolVars, taskVars, scopeVars, next, target, bres, bpanic, sret, recvVars, globalVars>>

InitPool ==
  /\ NoPool
  /\ TasksIn({"incr", "panic", "bomb"})
  /\ NoScope
  /\ cpc = "build" /\ next = 1 /\ joined = 0 /\ target = 0
  /\ bres = 0 /\ bpanic = FALSE /\ sret = 0 /\ ret = "none"
  /\ NoHandle
  /\ NoGlobal

NextPool ==
  \/ PoolBuild
  \/ PoolRun
  \/ JoinAllDrop
  \/ JoinAllJoin
  \/ \E w \in Workers : WorkerRecv(w)
  \/ \E w \in Workers : WorkerCall(w)
  \/ \E w \in Workers : WorkerPayloadDrop(w)
  \/ \E w \in Workers : WorkerExit(w)

SpecPool == InitPool /\ [][NextPool]_vars

\* The OS schedules every thread that can run: each worker and the client.
FairPool ==
  /\ \A w \in Workers : WF_vars(WorkerRecv(w) \/ WorkerCall(w) \/ WorkerPayloadDrop(w) \/ WorkerExit(w))
  /\ WF_vars(PoolBuild \/ PoolRun \/ JoinAllDrop \/ JoinAllJoin)

SpecPoolFair == SpecPool /\ FairPool

\* ------------------------------------------------------- claims C5 - C7
NumIncr == Cardinality({i \in 1..ntasks : kind[i] = "incr"})

\* C5: every job submitted with ThreadPool::run is executed at most once and
\* the completion counter never exceeds the number of incrementing jobs; when
\* join_all has returned Ok every job has been executed exactly once and the
\* counter equals that number (M when every job increments); and it does
\* return Ok unless a job's panic payload ended a worker.
Thm_C5 ==
  /\ counter <= NumIncr
  /\ \A i \in Tasks : execs[i] <= 1
  /\ (cpc = "done" /\ ret = "Ok") =>
       /\ \A i \in 1..ntasks : execs[i] = 1
       /\ counter = NumIncr
       /\ queue = <<>>
  /\ (cpc = "done" /\ \A i \in 1..ntasks : kind[i] # "bomb") => ret = "Ok"

Wit_C5 ==
  /\ cpc = "done"
  /\ ntasks = MaxTasks
  /\ nthreads = MaxWorkers
  /\ \A i \in 1..ntasks : kind[i] = "incr"
  /\ counter = MaxTasks

\* C6: under fair scheduling, once join_all has dropped the sender it
\* eventually returns, with the queue drained and every worker out of its loop.
Claim_C6 ==
  (cpc = "join") ~>
     (/\ cpc = "done"
      /\ queue = <<>>
      /\ \A w \in 1..nthreads : wpc[w] = "exited")

\* C7: a panicking job never ends its worker; when join_all has returned it
\* returned Ok and every job submitted after a panicking job has been executed.
Claim_C7 ==
  /\ \A w \in Workers : wpc[w] # "panicked"
  /\ cpc = "done" =>
       /\ ret = "Ok"
       /\ \A i, j \in 1..ntasks : (Panics(kind[i]) /\ i < j) => execs[j] = 1

\* --------------------------- finish, thread by thread (SpecBuild), claim C15
\* The same client as SpecPool, with finish() taken one spawn at a time and
\* every spawn free to fail.

\* Threads spawned so far: the handles the iterator has produced.
NumSpawned == Cardinality({w \in Workers : wpc[w] # "unspawned"})

\* finish, lines 225-233: resolve the thread count, Err(NoThreads) for 0, else
\* create the channel.
FinishBegin ==
  /\ cpc = "build"
  /\ \E n \in 0..MaxWorkers :
       LET tc == ResolveThreadCount([some |-> TRUE, n |-> n], avail) IN
       IF tc = 0
       THEN /\ cpc' = "failed"
            /\ ret' = "NoThreads"
            /\ UNCHANGED <<txAlive, target>>
       ELSE /\ txAlive' = TRUE
            /\ target' = tc
            /\ cpc' = "spawn"
            /\ ret' = ret
  /\ UNCHANGED <<queue, nthreads, wpc, wjob, wres, wval, taskVars, scopeVars,
                 next, joined, bres, bpanic, sret, recvVars, globalVars>>

\* finish, lines 237-258: Builder::spawn for the next thread.  Ok: the thread
\* starts its loop.  Err: collect::<Result<_, _>>()? returns Err(Io), which
\* drops tx and the handles collected so far.
FinishSpawnSubset ==
  /\ cpc = "spawn"
  /\ NumSpawned < target
  /\ \E ok \in BOOLEAN :
       IF ok
       THEN /\ wpc' = [wpc EXCEPT ![NumSpawned + 1] = "recv"]
            /\ UNCHANGED <<txAlive, nthreads, cpc, ret>>
       ELSE /\ nthreads' = NumSpawned
            /\ cpc' = "submit"
            /\ UNCHANGED <<txAlive, wpc, ret>>
  /\ UNCHANGED <<queue, wjob, wres, wval, taskVars, scopeVars,
                 next, joined, target, bres, bpanic, sret, recvVars, globalVars>>

FinishSpawn ==
  /\ cpc = "spawn"
  /\ NumSpawned < target
  /\ \E ok \in BOOLEAN :
       IF ok
       THEN /\ wpc' = [wpc EXCEPT ![NumSpawned + 1] = "recv"]
            /\ UNCHANGED <<txAlive, nthreads, cpc, ret>>
       ELSE /\ txAlive' = FALSE
            /\ cpc' = "failed"
            /\ ret' = "Io"
            /\ UNCHANGED <<wpc, nthreads>>
  /\ UNCHANGED <<queue, wjob, wres, wval, taskVars, scopeVars,
                 next, joined, target, bres, bpanic, sret, recvVars, globalVars>>

\* finish, line 259: every spawn succeeded, Ok(ThreadPool { tx, handles }).
FinishReturn ==
  /\ cpc = "spawn"
  /\ NumSpawned = target
  /\ nthreads' = target
  /\ cpc' = "submit"
  /\ UNCHANGED <<queue, txAlive, wpc, wjob, wres, wval, taskVars, scopeVars,
                 next, joined, target, bres, bpanic, sret, ret, recvVars, globalVars>>

NextBuild ==
  \/ FinishBegin
  \/ FinishSpawn
  \/ FinishReturn
  \/ PoolRun
  \/ JoinAllDrop
  \/ JoinAllJoin
  \/ \E w \in Workers : WorkerRecv(w)
  \/ \E w \in Workers : WorkerCall(w)
  \/ \E w \in Workers : WorkerPayloadDrop(w)
  \/ \E w \in Workers : WorkerExit(w)

SpecBuild == InitPool /\ [][NextBuild]_vars

FairBuild ==
  /\ \A w \in Workers : WF_vars(WorkerRecv(w) \/ WorkerCall(w) \/ WorkerPayloadDrop(w) \/ WorkerExit(w))
  /\ WF_vars(FinishBegin \/ FinishSpawn \/ FinishReturn \/ PoolRun \/ JoinAllDrop
             \/ JoinAllJoin)

SpecBuildFair == SpecBuild /\ FairBuild

Inv_C15 ==
  /\ ret = "Io" =>
       /\ cpc = "failed"
       /\ NumSpawned < target
       /\ ~txAlive
       /\ queue = <<>>
       /\ \A w \in Workers : wpc[w] \in {"unspawned", "recv", "exited"}
       /\ \A i \in AllTasks : execs[i] = 0
  /\ cpc = "failed" => nthreads = 0
  /\ nthreads > 0 => (nthreads = target /\ NumSpawned = target)

\* C15: construction is all-or-nothing.  When a spawn has failed finish has
\* returned Io, there is no pool (a pool that exists has all its threads),
\* the sender is gone and the queue is empty; no task is ever executed, and
\* under fair scheduling the workers spawned before the failure all exit.
Thm_C15 ==
  /\ []Inv_C15
  /\ (ret = "Io") ~> (\A w \in Workers : wpc[w] \in {"unspawned", "exited"})

\* The last of MaxWorkers spawns failed and the first worker has exited.
Wit_C15 ==
  /\ ret = "Io"
  /\ target = MaxWorkers
  /\ NumSpawned = MaxWorkers - 1
  /\ \A w \in 1..(MaxWorkers - 1) : wpc[w] = "exited"

\* ------------------------------------------ the scope client (SpecScope)
\* scope.rs doc test / examples/compute.rs:
\*   ThreadPool::default().scoped(|s| { for x in data.iter_mut() { s.run(..) } })

\* The guard's loop condition, scope.rs:80
PendingOffByOne(c) == c > 1
Pending(c) == c > 0

\* scope.rs:80-82: after park returns the `while` evaluates its condition again.
IfPark == "exit"
WhilePark == "load"

\* run, line 77: this = Arc::new((thread::current(), AtomicUsize::new(0)))
ScopedEnter ==
  /\ cpc = "start"
  /\ count' = [count EXCEPT ![0] = 0]
  /\ owner' = [owner EXCEPT ![0] = 0]
  /\ cpc' = "body"
  /\ UNCHANGED <<poolVars, taskVars, token, earlyWake, spc, lost, next, joined, target, bres, bpanic, sret, ret,
                 recvVars, globalVars>>

\* Scope::run, line 48: parent.1.fetch_add(1, Acquire)
ScopeRunAdd ==
  /\ cpc = "body"
  /\ next <= ntasks
  /\ count' = [count EXCEPT ![0] = @ + 1]
  /\ cpc' = "body_send"
  /\ UNCHANGED <<poolVars, taskVars, token, owner, earlyWake, spc, lost, next, joined, target, bres, bpanic, sret, ret,
                 recvVars, globalVars>>

\* run, lines 79-89: _guard is a local of run, so a panic that unwinds out of
\* f(Scope { .. }) drops it, and its closure waits, before run's frame is left.
UnwindSkipsGuard == "exit"
UnwindRunsGuard == "load"

\* Scope::run, lines 56-62: self.pool.run(wrapper).  When the send fails the
\* wrapper is dropped without having run, so nothing undoes the increment, and
\* the unwrap's panic unwinds out of the body.
ScopeRunSend ==
  /\ cpc = "body_send"
  /\ IF SendFails
     THEN /\ lost' = [lost EXCEPT ![0] = @ + 1]
          /\ bpanic' = TRUE
          /\ cpc' = UnwindRunsGuard
          /\ UNCHANGED <<queue, next>>
     ELSE /\ queue' = Append(queue, ScopedJob(next, kind[next], 0))
          /\ next' = next + 1
          /\ cpc' = "body"
          /\ UNCHANGED <<lost, bpanic>>
  /\ UNCHANGED <<txAlive, nthreads, wpc, wjob, wres, wval, taskVars,
                 token, count, owner, earlyWake, spc,
                 joined, target, bres, sret, ret, recvVars, globalVars>>

\* run, lines 85-89: the body returns its result (here: one more than the
\* number of jobs it spawned); the guard is dropped next.
BodyReturn ==
  /\ cpc = "body"
  /\ next > ntasks
  /\ bres' = ntasks + 1
  /\ cpc' = "load"
  /\ UNCHANGED <<poolVars, taskVars, scopeVars, next, joined, target, bpanic, sret, ret,
                 recvVars, globalVars>>

\* run, line 80: this.1.load(SeqCst) > 0
GuardLoad ==
  /\ cpc = "load"
  /\ cpc' = IF Pending(count[0]) THEN "park" ELSE "exit"
  /\ UNCHANGED <<poolVars, taskVars, scopeVars, next, joined, target, bres, bpanic, sret, ret,
                 recvVars, globalVars>>

\* run, line 81: thread::park() returns by consuming the token.
Park ==
  /\ cpc = "park"
  /\ token[0]
  /\ token' = [token EXCEPT ![0] = FALSE]
  /\ earlyWake' = (earlyWake \/ count[0] > 0)
  /\ cpc' = WhilePark
  /\ UNCHANGED <<poolVars, taskVars, count, owner, spc, lost, next, joined, target, bres, bpanic, sret, ret,
                 recvVars, globalVars>>

\* run, line 81: thread::park() may also return spuriously.
ParkSpurious ==
  /\ cpc = "park"
  /\ ~token[0]
  /\ earlyWake' = (earlyWake \/ count[0] > 0)
  /\ cpc' = WhilePark
  /\ UNCHANGED <<poolVars, taskVars, token, count, owner, spc, lost, next, joined, target, bres, bpanic, sret, ret,
                 recvVars, globalVars>>

\* run, line 90: the guard's closure is over; scoped returns the body's result.
ScopedReturn ==
  /\ cpc = "exit"
  /\ ~bpanic
  /\ sret' = bres
  /\ cpc' = "returned"
  /\ UNCHANGED <<poolVars, taskVars, scopeVars, next, joined, target, bres, bpanic, ret,
                 recvVars, globalVars>>

\* The temporary ThreadPool::default() is dropped after scoped returned.
PoolDrop ==
  /\ cpc = "returned"
  /\ txAlive' = FALSE
  /\ cpc' = "done"
  /\ UNCHANGED <<queue, nthreads, wpc, wjob, wres, wval, taskVars, scopeVars,
                 next, joined, target, bres, bpanic, sret, ret, recvVars, globalVars>>

InitScope ==
  /\ \E n \in 1..MaxWorkers : FreshPool(n)
  /\ TasksIn({"square", "panic", "bomb"})
  /\ NoScope
  /\ cpc = "start" /\ next = 1 /\ joined = 0 /\ target = 0
  /\ bres = 0 /\ bpanic = FALSE /\ sret = 0 /\ ret = "none"
  /\ NoHandle
  /\ NoGlobal

NextScope ==
  \/ ScopedEnter
  \/ ScopeRunAdd
  \/ ScopeRunSend
  \/ BodyReturn
  \/ GuardLoad
  \/ Park
  \/ ParkSpurious
  \/ ScopedReturn
  \/ PoolDrop
  \/ \E w \in Workers : WorkerRecv(w)
  \/ \E w \in Workers : WorkerCall(w)
  \/ \E w \in Workers : WorkerPayloadDrop(w)
  \/ \E w \in Workers : WorkerGuardDec(w)
  \/ \E w \in Workers : WorkerGuardUnpark(w)
  \/ \E w \in Workers : WorkerExit(w)

SpecScope == InitScope /\ [][NextScope]_vars

\* The OS schedules every thread that can run.  A spurious return of park is
\* allowed but never promised.
FairScope ==
  /\ \A w \in Workers :
       WF_vars(WorkerRecv(w) \/ WorkerCall(w) \/ WorkerPayloadDrop(w) \/ WorkerGuardDec(w)
               \/ WorkerGuardUnpark(w) \/ WorkerExit(w))
  /\ WF_vars(ScopedEnter \/ ScopeRunAdd \/ ScopeRunSend \/ BodyReturn \/ GuardLoad
             \/ Park \/ ScopedReturn \/ PoolDrop)

SpecScopeFair == SpecScope /\ FairScope

\* ------------------------------------------------------- claims C1 - C4
Returned == cpc \in {"returned", "done"}

\* A worker is inside the wrapper of task i: received, guard not yet finished.
InWrapper(i) ==
  \E w \in Workers : wjob[w].id = i /\ wpc[w] \in {"call", "send", "dec", "unpark"}

\* The function of task i is queued, running, or finished but not yet
\* accounted for by the decrement.
Outstanding(i) ==
  \/ \E k \in 1..Len(queue) : queue[k].id = i
  \/ \E w \in Workers : wjob[w].id = i /\ wpc[w] \in {"call", "send", "dec"}

\* C1: when scoped has left its wait and in every state after its return the
\* pending count is 0.
Thm_C1 == (cpc = "exit" \/ Returned) => count[0] = 0

\* scoped returned after the parked owner was woken while tasks were still
\* outstanding, and again by the last task.
Wit_C1 ==
  /\ cpc = "returned"
  /\ count[0] = 0
  /\ earlyWake
  /\ ntasks = MaxTasks
  /\ \A i \in 1..ntasks : unparks[i] = 1
  /\ ~token[0]

\* C2: when scoped has returned, every task of the scope has run exactly once,
\* every squaring task has finished its write (the element is the square of
\* its original value), and no task is queued or still running.
Thm_C2 ==
  Returned =>
    \A i \in 1..ntasks :
      /\ execs[i] = 1
      /\ kind[i] = "square" => data[i] = Square(orig[i])
      /\ ~Outstanding(i)

Wit_C2 ==
  /\ cpc = "returned"
  /\ ntasks = MaxTasks
  /\ \A i \in 1..ntasks : kind[i] = "square" /\ data[i] = (i + 1) * (i + 1)

\* C3: under fair scheduling, once the body has returned scoped eventually
\* returns the body's result.
Claim_C3 == (cpc = "load") ~> (cpc = "returned" /\ sret = bres /\ count[0] = 0)

\* C4: whether its function returns or panics, a scoped task's wrapper
\* decrements the count once, then unparks the owner once, and that unpark is
\* the wrapper's last action; so when no task is queued or in its wrapper any
\* more the count is 0, and under fair scheduling a scope with a panicking
\* task still returns.
Inv_C4 ==
  /\ \A i \in Tasks :
       /\ decs[i] <= 1
       /\ unparks[i] <= decs[i]
       /\ unparks[i] = 1 => ~InWrapper(i)
       /\ (execs[i] = 1 /\ ~InWrapper(i)) => (decs[i] = 1 /\ unparks[i] = 1)
  /\ (cpc = "load" /\ \A i \in 1..ntasks : execs[i] = 1 /\ ~InWrapper(i)) => count[0] = 0

Claim_C4 ==
  /\ []Inv_C4
  /\ (cpc = "load" /\ \E i \in 1..ntasks : Panics(kind[i])) ~> (cpc = "returned")

\* ------------------------------------------------------------ claim C16
\* Scope::run has incremented the count for task i (line 48): the task has
\* been sent, or is between the increment and its send, or its send failed
\* after the increment (the body unwinds then and spawns no more).
Incremented(i) == i < next \/ (i = next /\ (cpc = "body_send" \/ lost[0] > 0))

\* C16: the count of the scope equals the number of its tasks whose spawn has
\* incremented it and whose wrapper has not yet decremented it: the tasks
\* queued or executing, and the one being enqueued; it is never below the
\* number of unfinished tasks and never below zero.
Claim_C16 ==
  /\ count[0] = Cardinality({i \in 1..ntasks : Incremented(i) /\ decs[i] = 0})
  /\ count[0] = Cardinality({i \in 1..ntasks : Outstanding(i)})
                  + (IF cpc = "body_send" THEN 1 ELSE 0)
  /\ count[0] >= Cardinality({i \in 1..ntasks : Outstanding(i)})
  /\ count[0] >= 0

\* ------------------- scopes opened by other threads (SpecNested), claim C17
\* pool.run(|| pool.scoped(|s| s.run(f))): the function of a job opens a scope
\* on the pool that runs it, spawns one task in it and returns what scoped
\* returns.  The scope is named by the thread that opened it.

\* The task a thread's scope spawns.
ChildOf(t) == IF t \in Workers THEN Inner(wjob[t].id) ELSE OtherTask

\* The thread is about to call scoped: a worker inside a "nest" function, or
\* the second client at the start of its program.
CanOpen(t) ==
  IF t \in Workers
  THEN wpc[t] = "call" /\ wjob[t].fn = "nest" /\ spc[t] = "idle"
  ELSE spc[t] = "start"

\* run, line 77: this = Arc::new((thread::current(), AtomicUsize::new(0)))
OpenScope(t) ==
  /\ CanOpen(t)
  /\ count' = [count EXCEPT ![t] = 0]
  /\ owner' = [owner EXCEPT ![t] = t]
  /\ spc' = [spc EXCEPT ![t] = "body"]
  /\ UNCHANGED <<poolVars, taskVars, token, earlyWake, lost, clientVars, recvVars, globalVars>>

\* Scope::run, line 48: parent.1.fetch_add(1, Acquire)
SpawnAdd(t) ==
  /\ spc[t] = "body"
  /\ count' = [count EXCEPT ![t] = @ + 1]
  /\ spc' = [spc EXCEPT ![t] = "body_send"]
  /\ UNCHANGED <<poolVars, taskVars, token, owner, earlyWake, lost, clientVars, recvVars,
                 globalVars>>

\* Scope::run, lines 56-62: self.pool.run(wrapper); the body returns and the
\* guard of run is dropped next.  When the send fails the wrapper is dropped
\* unsent and the unwrap's panic unwinds out of the body; the guard of run is
\* dropped by the unwinding.
SpawnSend(t) ==
  /\ spc[t] = "body_send"
  /\ IF SendFails
     THEN /\ lost' = [lost EXCEPT ![t] = @ + 1]
          /\ queue' = queue
     ELSE /\ queue' = Append(queue, ScopedJob(ChildOf(t), "incr", t))
          /\ lost' = lost
  /\ spc' = [spc EXCEPT ![t] = IF SendFails THEN UnwindRunsGuard ELSE "load"]
  /\ UNCHANGED <<txAlive, nthreads, wpc, wjob, wres, wval, taskVars,
                 token, count, owner, earlyWake, clientVars, recvVars, globalVars>>

\* run, line 80: this.1.load(SeqCst) > 0
WaitLoad(t) ==
  /\ spc[t] = "load"
  /\ spc' = [spc EXCEPT ![t] = IF Pending(count[t]) THEN "park" ELSE "exit"]
  /\ UNCHANGED <<poolVars, taskVars, token, count, owner, earlyWake, lost, clientVars,
                 recvVars, globalVars>>

\* run, line 81: thread::park() returns by consuming the token.
WaitPark(t) ==
  /\ spc[t] = "park"
  /\ token[t]
  /\ token' = [token EXCEPT ![t] = FALSE]
  /\ spc' = [spc EXCEPT ![t] = WhilePark]
  /\ UNCHANGED <<poolVars, taskVars, count, owner, earlyWake, lost, clientVars, recvVars,
                 globalVars>>

\* run, line 81: thread::park() may also return spuriously.
WaitParkSpurious(t) ==
  /\ spc[t] = "park"
  /\ ~token[t]
  /\ spc' = [spc EXCEPT ![t] = WhilePark]
  /\ UNCHANGED <<poolVars, taskVars, token, count, owner, earlyWake, lost, clientVars,
                 recvVars, globalVars>>

\* run, line 90: the guard's closure is over; scoped returns.
ScopeExit(t) ==
  /\ spc[t] = "exit"
  /\ spc' = [spc EXCEPT ![t] = "closed"]
  /\ UNCHANGED <<poolVars, taskVars, token, count, owner, earlyWake, lost, clientVars,
                 recvVars, globalVars>>

\* The client submits "nest" and "incr" jobs to a pool that lives on (the jobs
\* are 'static: they reach the pool through ThreadPool::global()).
InitNested ==
  /\ \E n \in 1..MaxWorkers : FreshPool(n)
  /\ TasksIn({"nest", "incr"})
  /\ NoScope
  /\ cpc = "submit" /\ next = 1 /\ joined = 0 /\ target = 0
  /\ bres = 0 /\ bpanic = FALSE /\ sret = 0 /\ ret = "none"
  /\ NoHandle
  /\ NoGlobal

NextNested ==
  \/ PoolRun
  \/ \E w \in Workers : WorkerRecv(w)
  \/ \E w \in Workers : WorkerCall(w)
  \/ \E w \in Workers : WorkerGuardDec(w)
  \/ \E w \in Workers : WorkerGuardUnpark(w)
  \/ \E w \in Workers : OpenScope(w)
  \/ \E w \in Workers : SpawnAdd(w)
  \/ \E w \in Workers : SpawnSend(w)
  \/ \E w \in Workers : WaitLoad(w)
  \/ \E w \in Workers : WaitPark(w)
  \/ \E w \in Workers : WaitParkSpurious(w)
  \/ \E w \in Workers : ScopeExit(w)

SpecNested == InitNested /\ [][NextNested]_vars

\* The OS schedules every thread that can run.  A spurious return of park is
\* allowed but never promised.
FairNested ==
  /\ \A w \in Workers :
       WF_vars(WorkerRecv(w) \/ WorkerCall(w) \/ WorkerGuardDec(w)
               \/ WorkerGuardUnpark(w) \/ OpenScope(w) \/ SpawnAdd(w) \/ SpawnSend(w)
               \/ WaitLoad(w) \/ WaitPark(w) \/ ScopeExit(w))
  /\ WF_vars(PoolRun)

SpecNestedFair == SpecNested /\ FairNested

\* C17: under fair scheduling, a scope that a job's function opened on a
\* worker of the same pool eventually returns after its body has returned,
\* whatever the number of workers and of workers inside such a scope.
Claim_C17 ==
  \A w \in Workers : (spc[w] = "load") ~> (spc[w] = "closed")

\* ------------------------ a panicking scope body (SpecScopePanic), claim C18
\* The body panics between two calls of Scope::run, or after the last.
BodyPanic ==
  /\ cpc = "body"
  /\ bpanic' = TRUE
  /\ cpc' = UnwindRunsGuard
  /\ UNCHANGED <<poolVars, taskVars, scopeVars, next, joined, target, bres, sret, ret,
                 recvVars, globalVars>>

\* The guard's closure is over; the panic leaves run and scoped and reaches
\* the caller's frame.
ScopedUnwind ==
  /\ cpc = "exit"
  /\ bpanic
  /\ cpc' = "unwound"
  /\ ret' = "panic"
  /\ UNCHANGED <<poolVars, taskVars, scopeVars, next, joined, target, bres, bpanic, sret,
                 recvVars, globalVars>>

NextScopePanic ==
  \/ NextScope
  \/ BodyPanic
  \/ ScopedUnwind

SpecScopePanic == InitScope /\ [][NextScopePanic]_vars

\* C18: when the body has panicked and the unwinding has left the scope's
\* wait, the count is 0 and every task spawned before the panic has run and is
\* neither queued nor executing.
Thm_C18 ==
  (bpanic /\ cpc \in {"exit", "unwound"}) =>
     /\ count[0] = 0
     /\ \A i \in 1..(next - 1) : execs[i] = 1 /\ decs[i] = 1 /\ ~Outstanding(i)

\* The body panicked after spawning the first of several tasks; the panic
\* reached the caller after the owner had parked and been woken by that task.
Wit_C18 ==
  /\ cpc = "unwound"
  /\ ret = "panic"
  /\ next = 2 /\ ntasks >= 2
  /\ execs[1] = 1 /\ unparks[1] = 1
  /\ ~token[0]

\* ------------------------ two scopes on one pool (SpecTwo), claim C20
\* The client thread submits a plain job and opens a scope as in SpecScope;
\* a second client thread opens a scope of its own on the same pool.

\* ThreadPool::run: self.tx.send(Job { f }).unwrap()
PlainRun ==
  /\ cpc = "plain"
  /\ queue' = Append(queue, Job(PlainTask, "incr"))
  /\ cpc' = "start"
  /\ UNCHANGED <<txAlive, nthreads, wpc, wjob, wres, wval, taskVars, scopeVars,
                 next, joined, target, bres, bpanic, sret, ret, recvVars, globalVars>>

InitTwo ==
  /\ \E n \in 1..MaxWorkers : FreshPool(n)
  /\ TasksIn({"square", "bomb"})
  /\ token = [t \in Threads |-> FALSE]
  /\ count = [t \in Threads |-> 0]
  /\ owner = [t \in Threads |-> -1]
  /\ earlyWake = FALSE
  /\ spc = [t \in Threads |-> IF t = Other THEN "start" ELSE "idle"]
  /\ lost = [t \in Threads |-> 0]
  /\ cpc = "plain" /\ next = 1 /\ joined = 0 /\ target = 0
  /\ bres = 0 /\ bpanic = FALSE /\ sret = 0 /\ ret = "none"
  /\ NoHandle
  /\ NoGlobal

NextTwo ==
  \/ PlainRun
  \/ ScopedEnter
  \/ ScopeRunAdd
  \/ ScopeRunSend
  \/ BodyReturn
  \/ GuardLoad
  \/ Park
  \/ ParkSpurious
  \/ ScopedReturn
  \/ OpenScope(Other)
  \/ SpawnAdd(Other)
  \/ SpawnSend(Other)
  \/ WaitLoad(Other)
  \/ WaitPark(Other)
  \/ WaitParkSpurious(Other)
  \/ ScopeExit(Other)
  \/ \E w \in Workers : WorkerRecv(w)
  \/ \E w \in Workers : WorkerCall(w)
  \/ \E w \in Workers : WorkerPayloadDrop(w)
  \/ \E w \in Workers : WorkerGuardDec(w)
  \/ \E w \in Workers : WorkerGuardUnpark(w)

SpecTwo == InitTwo /\ [][NextTwo]_vars

\* Scope::run of the second client's scope has incremented its count.
OtherIncremented == spc[Other] \in {"body_send", "load", "park", "exit", "closed"}

\* Each scope's count is the number of its own spawned tasks that have not yet
\* decremented it (and of its own increments whose send failed), a thread holds
\* a park token only after a task of its own scope unparked it, and a scope is
\* past its wait only when its own tasks are done.
Inv_C20 ==
  /\ count[0] = Cardinality({i \in 1..ntasks : Incremented(i) /\ decs[i] = 0})
  /\ count[Other] = (IF OtherIncremented /\ decs[OtherTask] = 0 THEN 1 ELSE 0)
  /\ \A w \in Workers : count[w] = 0 /\ ~token[w]
  /\ token[0] => \E i \in 1..ntasks : unparks[i] = 1
  /\ token[Other] => unparks[OtherTask] = 1
  /\ \A i \in 1..ntasks : unparks[i] <= 1
  /\ unparks[OtherTask] <= 1 /\ decs[PlainTask] = 0 /\ unparks[PlainTask] = 0
  /\ (cpc = "exit" \/ Returned) =>
        \A i \in 1..ntasks : execs[i] = 1 /\ decs[i] = 1 /\ ~Outstanding(i)
  /\ spc[Other] \in {"exit", "closed"} =>
        execs[OtherTask] = 1 /\ decs[OtherTask] = 1 /\ ~Outstanding(OtherTask)

\* A wrapper of a task of thread t's scope has decremented the count and is
\* about to unpark t.
UnparkDue(t) ==
  \E w \in Workers : wpc[w] = "unpark" /\ wjob[w].scope /\ wjob[w].parent = t

\* C20: the scopes keep separate counts and park tokens: each scope's count
\* counts only its own tasks, each completion unparks only its own scope's
\* owner, and no scope is past its wait before its own tasks are done; and a
\* scope's wait ends as soon as its own tasks have finished: once they have
\* decremented the count is 0, and an owner parked at count 0 holds the park
\* token or is about to be given it, whatever the tasks of the other scope and
\* the plain job do.
Thm_C20 ==
  /\ Inv_C20
  /\ (OtherIncremented /\ decs[OtherTask] = 1) => count[Other] = 0
  /\ (spc[Other] = "park" /\ count[Other] = 0) => (token[Other] \/ UnparkDue(Other))
  /\ (\A i \in 1..ntasks : decs[i] = 1) => count[0] = 0
  /\ (cpc = "park" /\ count[0] = 0) => (token[0] \/ UnparkDue(0))

\* The client's scope has returned while the other scope's owner is parked,
\* its task still in the queue, and the plain job still being executed.
Wit_C20 ==
  /\ cpc = "returned"
  /\ ntasks = MaxTasks
  /\ spc[Other] = "park"
  /\ count[Other] = 1
  /\ \E k \in 1..Len(queue) : queue[k].id = OtherTask
  /\ \E w \in Workers : wjob[w].id = PlainTask /\ wpc[w] = "call"

\* -------------------------------------- the JobHandle client (SpecRecv)
\* examples/basic.rs: pool.run_recv(f), then calls on the JobHandle.

\* oneshot::Receiver::try_recv: Ok(message) exactly when a message is waiting;
\* taking it leaves the channel disconnected.
TryRecvOk(ch) == ch = "MESSAGE"
AfterTryRecv(ch) == IF ch = "MESSAGE" THEN "DISCONNECTED" ELSE ch

\* Where the job of the handle is.
JobStage ==
  IF queue # <<>> THEN "queued"
  ELSE IF \E w \in Workers : wpc[w] \in {"call", "send"} THEN "running"
  ELSE "finished"

\* ThreadPool::run_recv, lines 167-171
RunRecv ==
  /\ cpc = "start"
  /\ chan' = "EMPTY"
  /\ queue' = Append(queue, RecvJob(1, kind[1]))
  /\ cache' = 0
  /\ halive' = TRUE
  /\ cpc' = "handle"
  /\ UNCHANGED <<txAlive, nthreads, wpc, wjob, wres, wval, taskVars, scopeVars,
                 next, joined, target, bres, bpanic, sret, ret,
                 msg, ops, okVals, lastIs, everTrue, jres, joinAt, globalVars>>

\* is_completed with the stash written on every call: a call that finds no
\* message would wipe the value an earlier call had stashed.
IsCompletedOverwrite ==
  /\ cpc = "handle"
  /\ halive
  /\ ops < MaxOps
  /\ ops' = ops + 1
  /\ cache' = IF TryRecvOk(chan) THEN msg ELSE 0
  /\ lastIs' = IF TryRecvOk(chan) THEN "true" ELSE "false"
  /\ everTrue' = (everTrue \/ TryRecvOk(chan))
  /\ chan' = AfterTryRecv(chan)
  /\ UNCHANGED <<poolVars, taskVars, scopeVars, clientVars,
                 msg, halive, okVals, jres, joinAt, globalVars>>

\* JobHandle::is_completed, recv.rs:17-26
IsCompleted ==
  /\ cpc = "handle"
  /\ halive
  /\ ops < MaxOps
  /\ ops' = ops + 1
  /\ IF TryRecvOk(chan)
     THEN /\ cache' = msg
          /\ lastIs' = "true"
          /\ everTrue' = TRUE
     ELSE /\ lastIs' = "false"
          /\ UNCHANGED <<cache, everTrue>>
  /\ chan' = AfterTryRecv(chan)
  /\ UNCHANGED <<poolVars, taskVars, scopeVars, clientVars,
                 msg, halive, okVals, jres, joinAt, globalVars>>

\* JobHandle::try_join, recv.rs:29-36
TryJoin ==
  /\ cpc = "handle"
  /\ halive
  /\ ops < MaxOps
  /\ ops' = ops + 1
  /\ cache' = 0
  /\ IF cache # 0
     THEN /\ okVals' = Append(okVals, cache)
          /\ jres' = "TryOk"
          /\ halive' = FALSE
          /\ chan' = chan
     ELSE IF TryRecvOk(chan)
     THEN /\ okVals' = Append(okVals, msg)
          /\ jres' = "TryOk"
          /\ halive' = FALSE
          /\ chan' = AfterTryRecv(chan)
     ELSE /\ jres' = "TryPending"
          /\ chan' = AfterTryRecv(chan)
          /\ UNCHANGED <<okVals, halive>>
  /\ UNCHANGED <<poolVars, taskVars, scopeVars, clientVars,
                 msg, lastIs, everTrue, joinAt, globalVars>>

\* JobHandle::join, recv.rs:39-42: the cached value, else rx.recv() is entered.
JoinBegin ==
  /\ cpc = "handle"
  /\ halive
  /\ ops < MaxOps
  /\ ops' = ops + 1
  /\ cache' = 0
  /\ joinAt' = JobStage
  /\ IF cache # 0
     THEN /\ okVals' = Append(okVals, cache)
          /\ jres' = "JoinOk"
          /\ halive' = FALSE
          /\ cpc' = cpc
     ELSE /\ cpc' = "joining"
          /\ UNCHANGED <<okVals, jres, halive>>
  /\ UNCHANGED <<poolVars, taskVars, scopeVars, next, joined, target, bres, bpanic, sret, ret,
                 chan, msg, lastIs, everTrue, globalVars>>

\* JobHandle::join, recv.rs:43: rx.recv() returns the message, or an error once
\* the sender is gone; the error is mapped to Error::Timeout.
JoinRecv ==
  /\ cpc = "joining"
  /\ chan \in {"MESSAGE", "DISCONNECTED"}
  /\ IF chan = "MESSAGE"
     THEN /\ okVals' = Append(okVals, msg)
          /\ jres' = "JoinOk"
     ELSE /\ jres' = "JoinTimeout"
          /\ okVals' = okVals
  /\ chan' = "DISCONNECTED"
  /\ halive' = FALSE
  /\ cpc' = "handle"
  /\ UNCHANGED <<poolVars, taskVars, scopeVars, next, joined, target, bres, bpanic, sret, ret,
                 msg, cache, ops, lastIs, everTrue, joinAt, globalVars>>

InitRecv ==
  /\ \E n \in 1..MaxWorkers : FreshPool(n)
  /\ ntasks = 1
  /\ kind \in [Tasks -> {"value", "panic", "bomb", "none"}]
  /\ \A i \in Tasks : kind[i] = "none" <=> i > 1
  /\ orig \in [Tasks -> Vals \cup {0}]
  /\ \A i \in Tasks : orig[i] = 0 <=> i > 1
  /\ data = orig
  /\ counter = 0
  /\ execs = [i \in AllTasks |-> 0]
  /\ decs = [i \in AllTasks |-> 0]
  /\ unparks = [i \in AllTasks |-> 0]
  /\ NoScope
  /\ cpc = "start" /\ next = 1 /\ joined = 0 /\ target = 0
  /\ bres = 0 /\ bpanic = FALSE /\ sret = 0 /\ ret = "none"
  /\ NoHandle
  /\ NoGlobal

NextRecv ==
  \/ RunRecv
  \/ IsCompleted
  \/ TryJoin
  \/ JoinBegin
  \/ JoinRecv
  \/ \E w \in Workers : WorkerRecv(w)
  \/ \E w \in Workers : WorkerCall(w)
  \/ \E w \in Workers : WorkerPayloadDrop(w)
  \/ \E w \in Workers : WorkerSend(w)

SpecRecv == InitRecv /\ [][NextRecv]_vars

\* The OS schedules every thread that can run; which calls the client makes on
\* its handle is the client's choice, but a recv() that can return does.
FairRecv ==
  /\ \A w \in Workers : WF_vars(WorkerRecv(w) \/ WorkerCall(w) \/ WorkerPayloadDrop(w) \/ WorkerSend(w))
  /\ WF_vars(RunRecv \/ JoinRecv)

SpecRecvFair == SpecRecv /\ FairRecv

\* ------------------------------------------------------ claims C9 - C10
\* C9: when the function given to run_recv panics, no call on the handle
\* returns a value, and under fair scheduling a join that has to wait
\* eventually returns the error, wherever the job was when join was called.
Thm_C9 ==
  /\ [](Panics(kind[1]) => (okVals = <<>> /\ jres \notin {"TryOk", "JoinOk"}))
  /\ (Panics(kind[1]) /\ cpc = "joining") ~> (cpc = "handle" /\ jres = "JoinTimeout")

\* join was called while the panicking job was still queued, and returned the
\* error.
Wit_C9 ==
  /\ kind[1] = "panic"
  /\ jres = "JoinTimeout"
  /\ joinAt = "queued"
  /\ cpc = "handle"

\* C10: over any sequence of calls on a handle at most one call returns a
\* value, and that value is the one the submitted function returned.
Thm_C10 ==
  /\ Len(okVals) <= 1
  /\ \A k \in 1..Len(okVals) : kind[1] = "value" /\ okVals[k] = orig[1]
  /\ jres \in {"TryOk", "JoinOk"} => Len(okVals) = 1

\* After a try_join that handed the handle back and an is_completed that
\* cached the value, try_join returned the value.
Wit_C10 ==
  /\ okVals = <<orig[1]>>
  /\ jres = "TryOk"
  /\ everTrue
  /\ ops >= 3

\* ----------------------------------------------------- claims C11 - C14
\* join would return at once: a value is stashed, or the one-shot holds a
\* message or has lost its sender.
Joinable == cache # 0 \/ chan \in {"MESSAGE", "DISCONNECTED"}

\* C11: once is_completed has returned true the value stays stashed through
\* any further is_completed calls, a join never has to wait, and the try_join
\* or join that consumes the handle returns Ok with the function's value.
Thm_C11 ==
  everTrue =>
     /\ cpc # "joining"
     /\ kind[1] = "value"
     /\ halive => cache = orig[1]
     /\ ~halive => (jres \in {"TryOk", "JoinOk"} /\ okVals = <<orig[1]>>)

\* is_completed returned true, a further is_completed was made, and join
\* then returned the value.
Wit_C11 ==
  /\ everTrue
  /\ lastIs = "false"
  /\ jres = "JoinOk"
  /\ okVals = <<orig[1]>>
  /\ ~halive

\* C12: once is_completed has returned true on a handle, every later
\* is_completed on that handle returns true as well.
Claim_C12 == everTrue => lastIs = "true"

\* C13: whenever is_completed is called in a state where the job has finished
\* (its function returned or panicked) and join would return at once, it
\* returns true.
Claim_C13 == [][(IsCompleted /\ Joinable) => lastIs' = "true"]_vars

\* C14: once the function has panicked and its sender is gone, try_join does
\* not hand the handle back as if the job were pending.
Claim_C14 ==
  [][(TryJoin /\ Panics(kind[1]) /\ chan = "DISCONNECTED") => jres' # "TryPending"]_vars

\* ------------------- a handle from Scope::run_recv (SpecScopeRecv), claim C19
\* let h = pool.scoped(|s| s.run_recv(f)); then calls on h.

\* Scope::run_recv, line 70, and Scope::run, lines 47-48: the one-shot channel
\* is created, then the count is incremented.
ScopeRunRecvAdd ==
  /\ cpc = "body"
  /\ next <= ntasks
  /\ chan' = "EMPTY"
  /\ count' = [count EXCEPT ![0] = @ + 1]
  /\ cpc' = "recv_send"
  /\ UNCHANGED <<poolVars, taskVars, token, owner, earlyWake, spc, lost,
                 next, joined, target, bres, bpanic, sret, ret,
                 msg, cache, halive, ops, okVals, lastIs, everTrue, jres, joinAt,
                 globalVars>>

\* Scope::run, lines 56-62, and Scope::run_recv, line 72: the wrapper of the
\* sending closure is enqueued and the handle is made.
ScopeRunRecvSend ==
  /\ cpc = "recv_send"
  /\ queue' = Append(queue, ScopedRecvJob(next, kind[next], 0))
  /\ next' = next + 1
  /\ cache' = 0
  /\ halive' = TRUE
  /\ cpc' = "body"
  /\ UNCHANGED <<txAlive, nthreads, wpc, wjob, wres, wval, taskVars, scopeVars,
                 joined, target, bres, bpanic, sret, ret,
                 chan, msg, ops, okVals, lastIs, everTrue, jres, joinAt, globalVars>>

\* scoped has returned the handle; the caller starts to use it.
ScopedHandle ==
  /\ cpc = "returned"
  /\ cpc' = "handle"
  /\ UNCHANGED <<poolVars, taskVars, scopeVars, next, joined, target, bres, bpanic, sret, ret,
                 recvVars, globalVars>>

NextScopeRecv ==
  \/ ScopedEnter
  \/ ScopeRunRecvAdd
  \/ ScopeRunRecvSend
  \/ BodyReturn
  \/ GuardLoad
  \/ Park
  \/ ParkSpurious
  \/ ScopedReturn
  \/ ScopedHandle
  \/ IsCompleted
  \/ TryJoin
  \/ JoinBegin
  \/ JoinRecv
  \/ \E w \in Workers : WorkerRecv(w)
  \/ \E w \in Workers : WorkerCall(w)
  \/ \E w \in Workers : WorkerPayloadDrop(w)
  \/ \E w \in Workers : WorkerSend(w)
  \/ \E w \in Workers : WorkerGuardDec(w)
  \/ \E w \in Workers : WorkerGuardUnpark(w)

SpecScopeRecv == InitRecv /\ [][NextScopeRecv]_vars

\* scoped has returned.
AfterScope == cpc \in {"returned", "handle", "joining"}

\* C19: once scoped has returned the sender of the handle's channel is done.
\* While the handle is not consumed the value of a function that returned is
\* in the channel or in the handle's cache, so try_join never hands the handle
\* back and returns Ok with that value; after a panic join finds the channel
\* disconnected, does not block and returns an error.
Thm_C19 ==
  AfterScope =>
     /\ chan \in {"MESSAGE", "DISCONNECTED"}
     /\ JobStage = "finished"
     /\ (kind[1] = "value" /\ halive) =>
           \/ chan = "MESSAGE" /\ msg = orig[1] /\ cache = 0
           \/ chan = "DISCONNECTED" /\ cache = orig[1]
     /\ kind[1] = "value" =>
           /\ jres \in {"none", "TryOk", "JoinOk"}
           /\ jres # "none" => okVals = <<orig[1]>>
     /\ Panics(kind[1]) =>
           /\ jres \in {"none", "TryPending", "JoinTimeout"}
           /\ okVals = <<>>
     /\ joinAt \in {"none", "finished"}

\* try_join returned the value right after scoped returned, the owner having
\* been parked and woken by the task.
Wit_C19 ==
  /\ cpc = "handle"
  /\ ops = 1
  /\ jres = "TryOk"
  /\ okVals = <<orig[1]>>
  /\ unparks[1] = 1
  /\ ~token[0]

\* ------------------------------------------ the global pool (SpecGlobal)
\* lib.rs:97 GLOBAL: spin::once::Once<ThreadPool, spin::Yield>
\* lib.rs:119 global(), lib.rs:136-138 global_with_builder(builder)

\* The builders callers pass: ThreadPoolBuilder::default() (what global()
\* passes), or with_thread_count(k).
Builders ==
  {[some |-> FALSE, n |-> 0]} \cup {[some |-> TRUE, n |-> k] : k \in 0..MaxWorkers}

\* call_once claims the initialisation for its caller by moving the status
\* from Incomplete to Running with a compare-and-swap.
NoClaim(st) == st
Claim(st) == "Running"

\* global() / global_with_builder(b) is called.
GlobalCall(c) ==
  /\ gpc[c] = "idle"
  /\ gcalls[c] < MaxCalls
  /\ \E b \in Builders : gcfg' = [gcfg EXCEPT ![c] = b]
  /\ gcalls' = [gcalls EXCEPT ![c] = @ + 1]
  /\ gpc' = [gpc EXCEPT ![c] = "enter"]
  /\ UNCHANGED <<poolVars, taskVars, scopeVars, clientVars, recvVars,
                 avail, status, gdata, built, gret, gwin>>

\* call_once reads the status: Complete returns the stored pool, Panicked
\* panics, Incomplete claims the initialisation, Running yields and reads again.
GlobalEnter(c) ==
  /\ gpc[c] = "enter"
  /\ status # "Running"
  /\ IF status = "Complete"
     THEN /\ gret' = [gret EXCEPT ![c] = gdata]
          /\ gpc' = [gpc EXCEPT ![c] = "idle"]
          /\ status' = status
     ELSE IF status = "Panicked"
     THEN /\ gret' = [gret EXCEPT ![c] = -1]
          /\ gpc' = [gpc EXCEPT ![c] = "idle"]
          /\ status' = status
     ELSE /\ status' = Claim(status)
          /\ gpc' = [gpc EXCEPT ![c] = "init"]
          /\ gret' = gret
  /\ UNCHANGED <<poolVars, taskVars, scopeVars, clientVars, recvVars,
                 avail, gdata, built, gcfg, gwin, gcalls>>

\* The closure: builder.finish().expect(..).  Ok: the pool is stored and the
\* status becomes Complete.  Err: expect panics and the Once is left Panicked.
GlobalInit(c) ==
  /\ gpc[c] = "init"
  /\ \E spawnOk \in BOOLEAN :
       LET r == Finish(gcfg[c], avail, spawnOk) IN
       IF r.ok
       THEN /\ built' = Append(built, r.threads)
            /\ gdata' = r.threads
            /\ status' = "Complete"
            /\ gret' = [gret EXCEPT ![c] = r.threads]
       ELSE /\ status' = "Panicked"
            /\ gret' = [gret EXCEPT ![c] = -1]
            /\ UNCHANGED <<built, gdata>>
  /\ gwin' = gcfg[c]
  /\ gpc' = [gpc EXCEPT ![c] = "idle"]
  /\ UNCHANGED <<poolVars, taskVars, scopeVars, clientVars, recvVars,
                 avail, gcfg, gcalls>>

InitGlobal ==
  /\ NoPool
  /\ ntasks = 0
  /\ kind = [i \in Tasks |-> "none"]
  /\ orig = [i \in Tasks |-> 0]
  /\ data = orig
  /\ counter = 0
  /\ execs = [i \in AllTasks |-> 0]
  /\ decs = [i \in AllTasks |-> 0]
  /\ unparks = [i \in AllTasks |-> 0]
  /\ NoScope
  /\ cpc = "none" /\ next = 1 /\ joined = 0 /\ target = 0
  /\ bres = 0 /\ bpanic = FALSE /\ sret = 0 /\ ret = "none"
  /\ NoHandle
  /\ avail \in 0..MaxCpus
  /\ status = "Incomplete"
  /\ gdata = 0
  /\ built = <<>>
  /\ gpc = [c \in Callers |-> "idle"]
  /\ gcfg = [c \in Callers |-> [some |-> FALSE, n |-> 0]]
  /\ gret = [c \in Callers |-> 0]
  /\ gwin = [some |-> FALSE, n |-> 0]
  /\ gcalls = [c \in Callers |-> 0]

NextGlobal ==
  \/ \E c \in Callers : GlobalCall(c)
  \/ \E c \in Callers : GlobalEnter(c)
  \/ \E c \in Callers : GlobalInit(c)

SpecGlobal == InitGlobal /\ [][NextGlobal]_vars

\* ------------------------------------------------------------- claim C8
\* C8 as stated: whenever a call has ended, exactly one pool has been
\* constructed and the call returned that instance.
Orig_C8 ==
  \A c \in Callers : gret[c] # 0 => (Len(built) = 1 /\ gret[c] = built[1])

\* C8 as amended: at most one pool is ever constructed; every call that returns
\* returns that instance, whose thread_count() is the count resolved from the
\* configuration that won the initialisation, whatever configuration the call
\* itself passed; and when the winning configuration failed to build, no pool
\* exists and every call that has ended panicked.
Thm_C8 ==
  /\ Len(built) <= 1
  /\ \A c \in Callers :
       /\ gret[c] > 0 =>
            /\ Len(built) = 1
            /\ gret[c] = built[1]
            /\ gdata = built[1]
            /\ built[1] = ResolveThreadCount(gwin, avail)
            /\ status = "Complete"
       /\ gret[c] = -1 => (built = <<>> /\ status = "Panicked")

\* Two callers that passed configurations resolving to different thread counts
\* both got the instance of the first.
Wit_C8 ==
  /\ Len(built) = 1
  /\ \A c \in Callers : gpc[c] = "idle" /\ gret[c] = built[1]
  /\ \E c, d \in Callers :
       /\ ResolveThreadCount(gcfg[c], avail) # ResolveThreadCount(gcfg[d], avail)
       /\ ResolveThreadCount(gcfg[c], avail) # built[1]
       /\ ResolveThreadCount(gcfg[d], avail) # built[1]

====
